---- MODULE Spec2Model ----
(***************************************************************************)
(* The auto-concurrency Controller of src/sinks/util/auto_concurrency:     *)
(* a tokio Semaphore whose size is retuned from response times (AIMD),     *)
(* with a to_forget counter for permits that could not be taken back at    *)
(* the moment of a decrease.                                               *)
(*                                                                         *)
(* Time is counted in clock ticks (the resolution of Instant).  An f64     *)
(* number of seconds is kept as an integer count of 1/Scale ticks, so the  *)
(* halving done by the EWMA is exact as long as its result is a whole      *)
(* number of 1/Scale ticks; calls whose average is not such a number lie   *)
(* outside the precision bound FracBits and are left out.                  *)
(***************************************************************************)
EXTENDS Integers, Sequences, FiniteSets, TLC

\* ------------------------------------------------------------- bounds
MaxConcurrency == 3
NumTasks == 3
MaxAdvances == 1
FracBits == 2

\* ----------------------------------------------------- program constants
\* EWMA_ALPHA = 0.5 = 1 / EWMA_ALPHA_DEN
EWMA_ALPHA_DEN == 2
\* THRESHOLD_RATIO = 0.01 = 1 / THRESHOLD_RATIO_DEN
THRESHOLD_RATIO_DEN == 100

RECURSIVE Pow2(_)
Pow2(n) == IF n = 0 THEN 1 ELSE 2 * Pow2(n - 1)

Scale == Pow2(FracBits)

Tasks == 1..NumTasks

\* How far the clock moves between two readings of Instant::now(), in ticks.
Advances == {0, 200}
Horizon == MaxAdvances * 200

\* Elapsed times of the reported requests, in ticks; a `start` later than
\* `now` is the input that makes saturating_duration_since saturate.
RttValues == {200, 201, 400}

ResponseType == {"Normal", "BackPressure", "Other"}

VARIABLES
    max,                \* Controller.max
    permits,            \* Controller.semaphore: permits in the semaphore
    waiters,            \* Controller.semaphore: queue of waiting acquire_owned futures
    current,            \* Inner.current
    to_forget,          \* Inner.to_forget
    past_rtt,           \* Inner.past_rtt.average, in 1/Scale ticks
    next_update,        \* Inner.next_update, in ticks
    current_rtt,        \* Inner.current_rtt: [sum, count], sum in 1/Scale ticks
    had_back_pressure,  \* Inner.had_back_pressure
    now,                \* the monotonic clock, in ticks
    pc,                 \* per task: where it is in acquire / poll / holding a permit
    fut,                \* per task: state of MaybeForgetFuture.future
    reported_back_pressure
        \* history: a BackPressure response was reported since the last
        \* evaluation of the decision block (read by no action)

vars == <<max, permits, waiters, current, to_forget, past_rtt, next_update,
          current_rtt, had_back_pressure, now, pc, fut,
          reported_back_pressure>>

inner_vars == <<current, to_forget, past_rtt, next_update, current_rtt,
                had_back_pressure>>

\* --------------------------------------------------------- conversions
\* Duration::as_secs_f64: a whole number of ticks as an f64.
as_secs_f64(ticks) == ticks * Scale

\* Duration::from_secs_f64: the f64 cut down to whole ticks.
from_secs_f64(x) == x \div Scale

\* Instant::saturating_duration_since
saturating_duration_since(later, earlier) ==
    IF earlier > later THEN 0 ELSE later - earlier

\* ---------------------------------------------------------------- EWMA
EWMA_update(average, point) ==
    IF average = 0 THEN point
    ELSE (point + average * (EWMA_ALPHA_DEN - 1)) \div EWMA_ALPHA_DEN

\* The division above loses nothing.
EWMA_exact(average, point) ==
    average = 0 \/ (point + average * (EWMA_ALPHA_DEN - 1)) % EWMA_ALPHA_DEN = 0

\* ---------------------------------------------------------------- Mean
Max2(a, b) == IF a >= b THEN a ELSE b

Mean_update(m, point) ==
    LET sum == m.sum + point
        count == m.count + 1
    IN [mean |-> [sum |-> sum, count |-> count],
        average |-> sum \div Max2(count, 1),
        exact |-> sum % Max2(count, 1) = 0]

Mean_reset == [sum |-> 0, count |-> 0]

\* ----------------------------------------------------------- semaphore
\* Semaphore::add_permits(1): a queued future is handed the permit, else the
\* permit goes to the semaphore's count.
add_permits(p, w, f) ==
    IF w = <<>>
    THEN [permits |-> p + 1, waiters |-> w, fut |-> f]
    ELSE [permits |-> p, waiters |-> Tail(w),
          fut |-> [f EXCEPT ![Head(w)] = "assigned"]]

\* One poll of task t's acquire_owned future.
poll_future(t, p, w, f) ==
    CASE f[t] = "assigned" ->
            [ready |-> TRUE, permits |-> p, waiters |-> w, fut |-> f]
      [] f[t] = "new" /\ p > 0 ->
            [ready |-> TRUE, permits |-> p - 1, waiters |-> w, fut |-> f]
      [] f[t] = "new" /\ p = 0 ->
            [ready |-> FALSE, permits |-> p, waiters |-> Append(w, t),
             fut |-> [f EXCEPT ![t] = "queued"]]
      [] OTHER ->
            [ready |-> FALSE, permits |-> p, waiters |-> w, fut |-> f]

\* ---------------------------------------------- _adjust_to_response
\* The guard without the check of the clock against next_update.
DecisionDue_NoClock(avg, t, nu) == avg > 0

\* The guard of the decision block.
DecisionDue(avg, t, nu) == avg > 0 /\ t >= nu

\* The comparison with a threshold of 0: any rtt above avg counts.
OverThreshold_NoMargin(rtt, avg) == rtt > avg

\* rtt >= avg + threshold, threshold = avg * THRESHOLD_RATIO
OverThreshold(rtt, avg) ==
    rtt * THRESHOLD_RATIO_DEN >= avg * THRESHOLD_RATIO_DEN + avg

\* ShouldDecrease without the floor at 1.
ShouldDecrease_BelowOne(cur, bp, rtt, avg) ==
    bp \/ OverThreshold(rtt, avg)

ShouldDecrease(cur, bp, rtt, avg) ==
    cur > 1 /\ (bp \/ OverThreshold(rtt, avg))

\* ShouldIncrease without the cap at max.
ShouldIncrease_Uncapped(cur, mx, bp, rtt, avg) ==
    ~bp /\ rtt <= avg

\* ShouldIncrease stopping one short of max.
ShouldIncrease_OneShort(cur, mx, bp, rtt, avg) ==
    cur + 1 < mx /\ ~bp /\ rtt <= avg

ShouldIncrease(cur, mx, bp, rtt, avg) ==
    cur < mx /\ ~bp /\ rtt <= avg

\* new_current rounding up instead of down.
new_current_RoundUp(cur) == (cur + 1) \div 2

new_current(cur) == cur \div 2

\* The loop dropping the Err arm: a permit that is out is never owed.
RECURSIVE forget_permits_NoDebt(_, _, _)
forget_permits_NoDebt(n, p, tf) ==
    IF n = 0 THEN [permits |-> p, to_forget |-> tf]
    ELSE IF p > 0 THEN forget_permits_NoDebt(n - 1, p - 1, tf)
    ELSE forget_permits_NoDebt(n - 1, p, tf)

\* The loop without try_acquire: every permit to remove becomes debt.
RECURSIVE forget_permits_AllDebt(_, _, _)
forget_permits_AllDebt(n, p, tf) ==
    IF n = 0 THEN [permits |-> p, to_forget |-> tf]
    ELSE forget_permits_AllDebt(n - 1, p, tf + 1)

\* for _ in new_current..inner.current { try_acquire ... }
RECURSIVE forget_permits(_, _, _)
forget_permits(n, p, tf) ==
    IF n = 0 THEN [permits |-> p, to_forget |-> tf]
    ELSE IF p > 0 THEN forget_permits(n - 1, p - 1, tf)
    ELSE forget_permits(n - 1, p, tf + 1)

saturating_sub(a, b) == IF a >= b THEN a - b ELSE 0

next_update_after(t, new_avg) == t + from_secs_f64(new_avg)

\* The flag raised by every response that is not Normal.
back_pressure_flag_AnyError(flag, response) == flag \/ response # "Normal"

\* The window's flag as the decision reads it.
back_pressure_flag(flag, response) == flag \/ response = "BackPressure"

\* _adjust_to_response clearing the flag and the accumulator only when the
\* decision block has run.
AdjustCall_ResetOnDecision(start, response, d) ==
    LET t == now + d
        bp == back_pressure_flag(had_back_pressure, response)
        m == Mean_update(current_rtt,
                         as_secs_f64(saturating_duration_since(t, start)))
        rtt == m.average
        avg == past_rtt
    IN /\ now' = t
       /\ m.exact
       /\ IF DecisionDue(avg, t, next_update)
          THEN /\ EWMA_exact(avg, rtt)
               /\ IF ShouldDecrease(current, bp, rtt, avg)
                  THEN LET r == forget_permits(current - new_current(current),
                                               permits, to_forget)
                       IN /\ permits' = r.permits
                          /\ to_forget' = r.to_forget
                          /\ current' = new_current(current)
                          /\ UNCHANGED <<waiters, fut>>
                  ELSE IF ShouldIncrease(current, max, bp, rtt, avg)
                  THEN LET r == add_permits(permits, waiters, fut)
                       IN /\ permits' = r.permits
                          /\ waiters' = r.waiters
                          /\ fut' = r.fut
                          /\ current' = current + 1
                          /\ to_forget' = saturating_sub(to_forget, 1)
                  ELSE UNCHANGED <<permits, waiters, fut, current, to_forget>>
               /\ past_rtt' = EWMA_update(avg, rtt)
               /\ next_update' = next_update_after(t, past_rtt')
          ELSE UNCHANGED <<permits, waiters, fut, current, to_forget,
                           past_rtt, next_update>>
       /\ IF DecisionDue(avg, t, next_update)
          THEN /\ had_back_pressure' = FALSE
               /\ current_rtt' = Mean_reset
          ELSE /\ had_back_pressure' = bp
               /\ current_rtt' = m.mean
       /\ reported_back_pressure' =
              IF DecisionDue(avg, t, next_update) THEN FALSE
              ELSE reported_back_pressure \/ response = "BackPressure"
       /\ UNCHANGED <<max, pc>>

\* One call of _adjust_to_response(start, response), the clock having moved
\* by d since it was last read.
AdjustCall(start, response, d) ==
    LET t == now + d
        bp == back_pressure_flag(had_back_pressure, response)
        m == Mean_update(current_rtt,
                         as_secs_f64(saturating_duration_since(t, start)))
        rtt == m.average
        avg == past_rtt
    IN /\ now' = t
       /\ m.exact
       /\ IF DecisionDue(avg, t, next_update)
          THEN /\ EWMA_exact(avg, rtt)
               /\ IF ShouldDecrease(current, bp, rtt, avg)
                  THEN LET r == forget_permits(current - new_current(current),
                                               permits, to_forget)
                       IN /\ permits' = r.permits
                          /\ to_forget' = r.to_forget
                          /\ current' = new_current(current)
                          /\ UNCHANGED <<waiters, fut>>
                  ELSE IF ShouldIncrease(current, max, bp, rtt, avg)
                  THEN LET r == add_permits(permits, waiters, fut)
                       IN /\ permits' = r.permits
                          /\ waiters' = r.waiters
                          /\ fut' = r.fut
                          /\ current' = current + 1
                          /\ to_forget' = saturating_sub(to_forget, 1)
                  ELSE UNCHANGED <<permits, waiters, fut, current, to_forget>>
               /\ past_rtt' = EWMA_update(avg, rtt)
               /\ next_update' = next_update_after(t, past_rtt')
          ELSE UNCHANGED <<permits, waiters, fut, current, to_forget,
                           past_rtt, next_update>>
       /\ had_back_pressure' = FALSE
       /\ current_rtt' = Mean_reset
       /\ reported_back_pressure' =
              IF DecisionDue(avg, t, next_update) THEN FALSE
              ELSE reported_back_pressure \/ response = "BackPressure"
       /\ UNCHANGED <<max, pc>>

Starts(t) == {t - r : r \in RttValues} \cup {t + 1}

Adjust ==
    \E d \in Advances, response \in ResponseType :
        /\ now + d <= Horizon
        /\ \E start \in Starts(now + d) : AdjustCall(start, response, d)

\* ------------------------------------------------------------- acquire
\* Controller::acquire: the future is built, nothing is polled yet.
Acquire(t) ==
    /\ pc[t] = "idle"
    /\ pc' = [pc EXCEPT ![t] = "waiting"]
    /\ fut' = [fut EXCEPT ![t] = "new"]
    /\ UNCHANGED <<max, permits, waiters, now, reported_back_pressure>>
    /\ UNCHANGED inner_vars

\* while inner.to_forget > 0 { ready!(poll); forget; to_forget -= 1; new future }
RECURSIVE forget_loop(_, _, _, _, _)
forget_loop(t, tf, p, w, f) ==
    IF tf = 0
    THEN [pending |-> FALSE, to_forget |-> tf, permits |-> p, waiters |-> w,
          fut |-> f]
    ELSE LET r == poll_future(t, p, w, f)
         IN IF ~r.ready
            THEN [pending |-> TRUE, to_forget |-> tf, permits |-> r.permits,
                  waiters |-> r.waiters, fut |-> r.fut]
            ELSE forget_loop(t, tf - 1, r.permits, r.waiters,
                             [r.fut EXCEPT ![t] = "new"])

\* MaybeForgetFuture::poll up to drop(inner): the part under the mutex.
PollLocked(t) ==
    /\ pc[t] = "waiting"
    /\ LET r == forget_loop(t, to_forget, permits, waiters, fut)
       IN /\ to_forget' = r.to_forget
          /\ permits' = r.permits
          /\ waiters' = r.waiters
          /\ fut' = r.fut
          /\ pc' = [pc EXCEPT ![t] = IF r.pending THEN "waiting" ELSE "unlocked"]
    /\ UNCHANGED <<max, current, past_rtt, next_update, current_rtt,
                   had_back_pressure, now, reported_back_pressure>>

\* MaybeForgetFuture::poll after drop(inner): self.future.as_mut().poll(cx)
PollFinal(t) ==
    /\ pc[t] = "unlocked"
    /\ LET r == poll_future(t, permits, waiters, fut)
       IN /\ permits' = r.permits
          /\ waiters' = r.waiters
          /\ IF r.ready
             THEN /\ pc' = [pc EXCEPT ![t] = "holding"]
                  /\ fut' = [r.fut EXCEPT ![t] = "none"]
             ELSE /\ pc' = [pc EXCEPT ![t] = "waiting"]
                  /\ fut' = r.fut
    /\ UNCHANGED <<max, now, reported_back_pressure>>
    /\ UNCHANGED inner_vars

\* A drop that pays debt: with to_forget > 0 the permit is destroyed and
\* to_forget lowered instead of the permit going back to the semaphore.
Release_PaysDebt(t) ==
    /\ pc[t] = "holding"
    /\ IF to_forget > 0
       THEN /\ to_forget' = to_forget - 1
            /\ UNCHANGED <<permits, waiters, fut>>
       ELSE LET r == add_permits(permits, waiters, fut)
            IN /\ permits' = r.permits
               /\ waiters' = r.waiters
               /\ fut' = r.fut
               /\ to_forget' = to_forget
    /\ pc' = [pc EXCEPT ![t] = "idle"]
    /\ UNCHANGED <<max, now, reported_back_pressure, current, past_rtt,
                   next_update, current_rtt, had_back_pressure>>

\* The caller drops its OwnedSemaphorePermit.
Release(t) ==
    /\ pc[t] = "holding"
    /\ LET r == add_permits(permits, waiters, fut)
       IN /\ permits' = r.permits
          /\ waiters' = r.waiters
          /\ fut' = r.fut
    /\ pc' = [pc EXCEPT ![t] = "idle"]
    /\ UNCHANGED <<max, now, reported_back_pressure>>
    /\ UNCHANGED inner_vars

\* ------------------------------------------------------- specifications
\* Controller::new(max, current) with 1 <= current <= max.
new(mx, cur) ==
    /\ max = mx
    /\ permits = cur
    /\ waiters = <<>>
    /\ current = cur
    /\ to_forget = 0
    /\ past_rtt = 0
    /\ next_update = now
    /\ current_rtt = Mean_reset
    /\ had_back_pressure = FALSE

Init ==
    /\ now = 0
    /\ pc = [t \in Tasks |-> "idle"]
    /\ fut = [t \in Tasks |-> "none"]
    /\ reported_back_pressure = FALSE
    /\ \E mx \in 1..MaxConcurrency : \E cur \in 1..mx : new(mx, cur)

AcquireStep == \E t \in Tasks : Acquire(t)
PollLockedStep == \E t \in Tasks : PollLocked(t)
PollFinalStep == \E t \in Tasks : PollFinal(t)
ReleaseStep == \E t \in Tasks : Release(t)

Next ==
    \/ AcquireStep
    \/ PollLockedStep
    \/ PollFinalStep
    \/ ReleaseStep
    \/ Adjust

Spec == Init /\ [][Next]_vars

\* The same controller with its baseline already seeded with a first sample.
\* Controller::new leaves past_rtt at 0, so every state of Spec is a state of
\* SpecSeeded; the states with past_rtt > 0 are those in which the decision
\* block of _adjust_to_response runs.
SeedValues == {0, 200}

InitSeeded ==
    /\ now = 0
    /\ pc = [t \in Tasks |-> "idle"]
    /\ fut = [t \in Tasks |-> "none"]
    /\ reported_back_pressure = FALSE
    /\ \E mx \in 1..MaxConcurrency : \E cur \in 1..mx :
          /\ max = mx
          /\ permits = cur
          /\ waiters = <<>>
          /\ current = cur
          /\ to_forget = 0
          /\ past_rtt \in {as_secs_f64(v) : v \in SeedValues}
          /\ next_update = now
          /\ current_rtt = Mean_reset
          /\ had_back_pressure = FALSE

SpecSeeded == InitSeeded /\ [][Next]_vars

\* -------------------------------------------------------------- counts
HeldCount == Cardinality({t \in Tasks : pc[t] = "holding"})

\* Permits handed to a queued future that its task has not yet polled out.
AssignedCount == Cardinality({t \in Tasks : fut[t] = "assigned"})

AvailableCount == permits + AssignedCount

\* --------------------------------------------------------------- claims

\* C1: in every reachable state 1 <= current <= max.
C1_CurrentWithinBounds == 1 <= current /\ current <= max

\* C1 witness: the decision block has run at the last clock reading with
\* current already at max > 1, on a fast window.
C1_Witness_DecidedAtMax ==
    /\ max > 1
    /\ current = max
    /\ to_forget = 0
    /\ now = Horizon
    /\ past_rtt = as_secs_f64(200)
    /\ next_update = now + 200

\* C2: callers never hold more than max permits at once.
C2_HeldAtMostMax == HeldCount <= max

\* C3: (permits available + permits held) - debt = current.
C3_PermitAccounting == AvailableCount + HeldCount - to_forget = current

\* C5: acquire hands out a permit only at a moment when to_forget = 0.
C5_NoPermitWhileDebt ==
    [][\A t \in Tasks :
          (pc[t] # "holding" /\ pc'[t] = "holding") => to_forget = 0]_vars

\* C10: a decision with current = c > 1 and back pressure or a window rtt at
\* or over baseline + 1% sets current to floor(c / 2) >= 1; a decision at
\* current = 1 never lowers current.
C10_DecreaseHalves ==
    [][(past_rtt > 0 /\ now' >= next_update /\ pc' = pc) =>
          \A response \in ResponseType : \A start \in Starts(now') :
             AdjustCall(start, response, now' - now) =>
                LET rtt == as_secs_f64(saturating_duration_since(now', start))
                    signal == \/ had_back_pressure
                              \/ response = "BackPressure"
                              \/ 100 * rtt >= 101 * past_rtt
                IN /\ (current > 1 /\ signal) =>
                          (2 * current' <= current /\ current < 2 * current' + 2
                           /\ current' >= 1)
                   /\ current = 1 => current' >= 1]_vars

\* C10 witness: 3 was halved to 1 while permits were out, leaving debt.
C10_Witness_ThreeHalved ==
    /\ max = 3
    /\ current = 1
    /\ to_forget = 2
    /\ HeldCount = 3

\* What a decision may change, besides the window's own accumulators.
decision_vars == <<current, permits, waiters, fut, to_forget, past_rtt,
                   next_update>>

\* C6: on a controller whose baseline is still 0, a call with a positive rtt
\* and no back pressure runs no decision branch and leaves the baseline
\* seeded with that rtt.
C6_FirstCallSeeds ==
    [][(past_rtt = 0 /\ pc' = pc) =>
          \A response \in ResponseType \ {"BackPressure"} :
             \A start \in Starts(now') :
                (AdjustCall(start, response, now' - now)
                    /\ saturating_duration_since(now', start) > 0) =>
                   /\ UNCHANGED <<current, permits, waiters, fut, to_forget>>
                   /\ past_rtt' =
                         as_secs_f64(saturating_duration_since(now', start))]_vars

\* C8: once a BackPressure response was reported since the last decision,
\* the next decision taken with current > 1 halves current, whatever the
\* response that triggers it.
C8_StickyBackPressure ==
    [][(past_rtt > 0 /\ now' >= next_update /\ current > 1 /\ pc' = pc) =>
          \A response \in ResponseType : \A start \in Starts(now') :
             (AdjustCall(start, response, now' - now)
                 /\ (reported_back_pressure \/ response = "BackPressure")) =>
                (2 * current' <= current /\ current < 2 * current' + 2)]_vars

\* The decision last evaluated, at T, left the baseline B = past_rtt and
\* next_update = T + from_secs_f64(B): t lies strictly before T + B.
BeforeBaselineElapsed(t) ==
    t * Scale < next_update * Scale + (past_rtt % Scale)

\* C9 as stated: a call arriving strictly before T + B changes nothing a
\* decision sets.
C9_NoDecisionBeforeBaseline ==
    [][(BeforeBaselineElapsed(now') /\ pc' = pc) =>
          \A response \in ResponseType : \A start \in Starts(now') :
             AdjustCall(start, response, now' - now) =>
                UNCHANGED decision_vars]_vars

\* C9 amended: a call arriving strictly before next_update, which is T + B
\* cut down to whole clock ticks, changes nothing a decision sets.
C9_NoDecisionBeforeNextUpdate ==
    [][(now' < next_update /\ pc' = pc) =>
          \A response \in ResponseType : \A start \in Starts(now') :
             AdjustCall(start, response, now' - now) =>
                UNCHANGED decision_vars]_vars

\* C9 witness: a BackPressure response was reported before next_update,
\* behind a decision that left a baseline with a fraction of a tick.
C9_Witness_CallInsideWindow ==
    /\ reported_back_pressure
    /\ now < next_update
    /\ past_rtt % Scale # 0
    /\ current > 1

\* ------------------------------------------------ scenario C (spec, 8)
\* max = 10, current = 1, baseline seeded; callers acquire and release, and
\* report only responses without back pressure whose rtt is at most the
\* baseline.
HorizonC == 10 * 200

InitScenarioC ==
    /\ now = 0
    /\ pc = [t \in Tasks |-> "idle"]
    /\ fut = [t \in Tasks |-> "none"]
    /\ reported_back_pressure = FALSE
    /\ max = 10
    /\ permits = 1
    /\ waiters = <<>>
    /\ current = 1
    /\ to_forget = 0
    /\ past_rtt = as_secs_f64(200)
    /\ next_update = now
    /\ current_rtt = Mean_reset
    /\ had_back_pressure = FALSE

AdjustFast ==
    \E d \in Advances, response \in {"Normal", "Other"} :
        /\ now + d <= HorizonC
        /\ \E start \in Starts(now + d) :
              /\ as_secs_f64(saturating_duration_since(now + d, start))
                    <= past_rtt
              /\ AdjustCall(start, response, d)

NextScenarioC ==
    \/ AdjustFast
    \/ AcquireStep
    \/ PollLockedStep
    \/ PollFinalStep
    \/ ReleaseStep

SpecScenarioC == InitScenarioC /\ [][NextScenarioC]_vars

\* C7: in scenario C every decision raises current by exactly 1 while it is
\* below max = 10, and nothing raises it otherwise.
C7_OneStepPerWindowUpToMax ==
    [][/\ max = 10
       /\ current' =
             IF AdjustFast /\ past_rtt > 0 /\ now' >= next_update /\ current < 10
             THEN current + 1 ELSE current]_vars

\* C7 witness: current has climbed from 1 to 10 and a later decision, taken
\* at 10, has been evaluated.
C7_Witness_ReachedMax ==
    /\ current = 10
    /\ AvailableCount + HeldCount = 10
    /\ HeldCount = NumTasks
    /\ now = HorizonC
    /\ next_update > now

\* ------------------------------------------- debt scenario (spec, 8)
\* current = max = k, all k permits out, baseline seeded; one decrease is
\* decided while all k are out, then the holders release and acquire again.
InitDebt ==
    /\ now = 0
    /\ fut = [t \in Tasks |-> "none"]
    /\ reported_back_pressure = FALSE
    /\ waiters = <<>>
    /\ to_forget = 0
    /\ past_rtt = as_secs_f64(200)
    /\ next_update = now
    /\ current_rtt = Mean_reset
    /\ had_back_pressure = FALSE
    /\ permits = 0
    /\ \E k \in 2..MaxConcurrency :
          /\ max = k
          /\ current = k
          /\ pc = [t \in Tasks |-> IF t <= k THEN "holding" ELSE "idle"]

DecreaseAllOut ==
    /\ current = max
    /\ HeldCount = max
    /\ \E d \in Advances, response \in ResponseType :
          /\ now + d <= Horizon
          /\ \E start \in Starts(now + d) :
                /\ ShouldDecrease(current,
                                  back_pressure_flag(had_back_pressure, response),
                                  as_secs_f64(saturating_duration_since(now + d, start)),
                                  past_rtt)
                /\ DecisionDue(past_rtt, now + d, next_update)
                /\ AdjustCall(start, response, d)

NextDebt ==
    \/ DecreaseAllOut
    \/ AcquireStep
    \/ PollLockedStep
    \/ PollFinalStep
    \/ ReleaseStep

SpecDebt == InitDebt /\ [][NextDebt]_vars

\* C4: the decrease decided with all k permits out changes no caller's state
\* and owes all m = k - floor(k / 2) permits; from then on permits in
\* existence minus debt is k - m, and once debt is back at 0 at most k - m
\* permits are held.
C4_DebtResolves ==
    /\ [](current < max =>
             /\ current = max \div 2
             /\ AvailableCount + HeldCount - to_forget = max \div 2
             /\ (to_forget = 0 => HeldCount <= max \div 2))
    /\ [][current' < current =>
             /\ pc' = pc
             /\ fut' = fut
             /\ HeldCount' = max
             /\ to_forget' = max - max \div 2]_vars

\* C4 witness (k = 2, m = 1): both holders have released, debt is paid, the
\* one remaining permit is held by a new caller and the next acquire waits.
C4_Witness_NextAcquirePending ==
    /\ max = 2
    /\ current = 1
    /\ to_forget = 0
    /\ permits = 0
    /\ pc[3] = "holding"
    /\ pc[1] = "waiting" /\ fut[1] = "queued"
    /\ pc[2] = "idle"

\* ------------------------------------- construction without validation
\* Controller::new checks neither argument: every pair of usize values
\* builds a controller.  The pairs outside 1 <= current <= max.
InitUnchecked ==
    /\ now = 0
    /\ pc = [t \in Tasks |-> "idle"]
    /\ fut = [t \in Tasks |-> "none"]
    /\ reported_back_pressure = FALSE
    /\ \E mx \in 0..MaxConcurrency : \E cur \in 0..(MaxConcurrency + 1) :
          /\ ~(1 <= cur /\ cur <= mx)
          /\ new(mx, cur)

SpecUnchecked == InitUnchecked /\ [][Next]_vars

\* C11: a controller built with arguments outside 1 <= initial <= max is
\* never in a state with current > max, at construction or later.
C11_InvalidNewStaysAtMostMax == current <= max

\* ------------------------------------------- only failed requests
\* Controller::new(max, 1) with the baseline seeded; every reported response
\* is an Err, with or without back pressure.
InitErrors ==
    /\ now = 0
    /\ pc = [t \in Tasks |-> "idle"]
    /\ fut = [t \in Tasks |-> "none"]
    /\ reported_back_pressure = FALSE
    /\ \E mx \in 1..MaxConcurrency :
          /\ max = mx
          /\ permits = 1
          /\ waiters = <<>>
          /\ current = 1
          /\ to_forget = 0
          /\ past_rtt \in {as_secs_f64(v) : v \in SeedValues}
          /\ next_update = now
          /\ current_rtt = Mean_reset
          /\ had_back_pressure = FALSE

AdjustErrors ==
    \E d \in Advances, response \in {"Other", "BackPressure"} :
        /\ now + d <= Horizon
        /\ \E start \in Starts(now + d) : AdjustCall(start, response, d)

NextErrors ==
    \/ AdjustErrors
    \/ AcquireStep
    \/ PollLockedStep
    \/ PollFinalStep
    \/ ReleaseStep

SpecErrors == InitErrors /\ [][NextErrors]_vars

\* C12: from any state, at any time and for any rtt, a call reporting Other
\* and a call reporting Normal end in the same state: a step is the one
\* exactly when it is the other.
C12_OtherLikeNormal ==
    [][pc' = pc =>
          \A start \in Starts(now') :
             AdjustCall(start, "Other", now' - now)
                <=> AdjustCall(start, "Normal", now' - now)]_vars

\* C12 witness: with errors only, current has climbed from 1 to max = 3 in
\* two decisions; the second was evaluated at current = 2 on an Other
\* response and raised current instead of halving it.
C12_Witness_OtherRaisedTwice ==
    /\ max = 3
    /\ current = 3
    /\ to_forget = 0
    /\ now = Horizon
    /\ next_update > now

\* C13: the rtt a decision compares with the baseline and folds into it is
\* the mean of the samples of all calls since the previous decision: a call
\* that runs no decision leaves its sample in the accumulator, and a call
\* that runs one averages the accumulated samples together with its own.
C13_WindowMeanOverAllCalls ==
    [][(past_rtt > 0 /\ pc' = pc) =>
          \A response \in ResponseType : \A start \in Starts(now') :
             AdjustCall(start, response, now' - now) =>
                LET sample ==
                        as_secs_f64(saturating_duration_since(now', start))
                IN IF now' >= next_update
                   THEN past_rtt' =
                           EWMA_update(past_rtt,
                                       (current_rtt.sum + sample)
                                          \div (current_rtt.count + 1))
                   ELSE /\ current_rtt'.sum = current_rtt.sum + sample
                        /\ current_rtt'.count = current_rtt.count + 1]_vars

\* C16: after every completed call of adjust_to_response, with or without a
\* decision, had_back_pressure is false and the accumulator of the window
\* mean is empty (sum = 0, count = 0).
C16_WindowClearedAfterCall ==
    /\ had_back_pressure = FALSE
    /\ current_rtt.sum = 0
    /\ current_rtt.count = 0

\* C16 witness: a call that ran no decision has reported BackPressure, and
\* the flag and the accumulator are clear again.
C16_Witness_ClearedWithoutDecision ==
    /\ reported_back_pressure
    /\ past_rtt > 0
    /\ had_back_pressure = FALSE
    /\ current_rtt = [sum |-> 0, count |-> 0]

\* C14: a decrease from current = c removes n = c - floor(c / 2) permits in
\* one step: min(n, available) permits leave the semaphore, the remainder
\* is added to to_forget, and no caller's permit or future is touched.
C14_DecreaseTakesAvailableThenDebt ==
    [][(past_rtt > 0 /\ now' >= next_update /\ current > 1 /\ pc' = pc) =>
          \A response \in ResponseType : \A start \in Starts(now') :
             (AdjustCall(start, response, now' - now)
                 /\ \/ had_back_pressure
                    \/ response = "BackPressure"
                    \/ 100 * as_secs_f64(saturating_duration_since(now', start))
                          >= 101 * past_rtt) =>
                LET n == current - (current \div 2)
                    taken == IF n <= permits THEN n ELSE permits
                IN /\ permits' = permits - taken
                   /\ to_forget' = to_forget + (n - taken)
                   /\ fut' = fut
                   /\ waiters' = waiters
                   /\ HeldCount' = HeldCount]_vars

\* C14 witness: 3 was halved to 1 with one permit free and two out: the free
\* one is gone and one is owed.
C14_Witness_OneTakenOneOwed ==
    /\ max = 3
    /\ current = 1
    /\ permits = 0
    /\ to_forget = 1
    /\ HeldCount = 2
    /\ AssignedCount = 0

\* C15 as stated: a release with to_forget > 0 destroys the permit and lowers
\* to_forget by 1, the available permits staying as they were; a release
\* with to_forget = 0 makes the permit available and leaves to_forget at 0.
C15_ReleasePaysDebt ==
    [][\A t \in Tasks :
          (pc[t] = "holding" /\ pc'[t] = "idle") =>
             IF to_forget > 0
             THEN /\ to_forget' = to_forget - 1
                  /\ AvailableCount' = AvailableCount
             ELSE /\ to_forget' = 0
                  /\ AvailableCount' = AvailableCount + 1]_vars

\* C15 amended: a release always gives the permit back to the semaphore and
\* leaves to_forget as it was; to_forget is paid in the poll of a pending
\* acquire, which destroys one permit it obtained per unit it removes and
\* takes no permit from a holder.
C15_ReleaseReturnsPollPays ==
    [][/\ \A t \in Tasks :
             (pc[t] = "holding" /\ pc'[t] = "idle") =>
                /\ to_forget' = to_forget
                /\ AvailableCount' = AvailableCount + 1
       /\ (current' = current /\ to_forget' < to_forget) =>
             /\ AvailableCount - AvailableCount' = to_forget - to_forget'
             /\ HeldCount' = HeldCount
             /\ \E t \in Tasks : pc[t] = "waiting" /\ PollLocked(t)]_vars

\* C15 witness: a permit released while one was owed is free in the
\* semaphore, and the debt is still there.
C15_Witness_ReleasedIntoDebt ==
    /\ max = 2
    /\ current = 1
    /\ to_forget = 1
    /\ permits = 1
    /\ HeldCount = 1

\* A decision is evaluated on the window rtt w and finds neither the
\* decrease nor the increase condition: no back pressure and w strictly
\* between the baseline and baseline + 1%, or current = max on a fast
\* window, or current = 1 under an overload signal.
NeitherCondition(bp, w) ==
    /\ ~(current > 1 /\ (bp \/ 100 * w >= 101 * past_rtt))
    /\ ~(current < max /\ ~bp /\ w <= past_rtt)

\* C17: such a decision leaves current, the semaphore and to_forget alone,
\* folds w into the baseline and sets next_update to now + the new baseline,
\* the baseline being added to the Instant as a Duration (whole ticks).
C17_InconclusiveKeepsCapacity ==
    [][(past_rtt > 0 /\ now' >= next_update /\ pc' = pc) =>
          \A response \in ResponseType : \A start \in Starts(now') :
             LET w == (current_rtt.sum
                          + as_secs_f64(saturating_duration_since(now', start)))
                         \div (current_rtt.count + 1)
                 bp == had_back_pressure \/ response = "BackPressure"
             IN (AdjustCall(start, response, now' - now)
                    /\ NeitherCondition(bp, w)) =>
                   /\ UNCHANGED <<current, permits, waiters, fut, to_forget>>
                   /\ 2 * past_rtt' = w + past_rtt
                   /\ next_update' = now' + (past_rtt' \div Scale)]_vars

\* C17 witness: at current = 2 of max = 3 a decision met a window of 201
\* ticks against a baseline of 200: current is still 2, the baseline is 200.5
\* ticks and next_update lies 200 ticks on.
C17_Witness_InsideBand ==
    /\ max = 3
    /\ current = 2
    /\ to_forget = 0
    /\ 2 * past_rtt = as_secs_f64(401)
    /\ now = 0
    /\ next_update = 200

\* --------------------------------------------- the mutex made explicit
\* The steps of MaybeForgetFuture::poll with the Mutex<Inner> as a resource:
\* a task at "locked" has returned from inner.lock() and owns the guard.
\* _adjust_to_response takes the same mutex for the length of the call.
LockHolders == {t \in Tasks : pc[t] = "locked"}

\* let mut inner = inner.lock(): the thread waits until the mutex is free.
PollLock(t) ==
    /\ pc[t] = "waiting"
    /\ LockHolders = {}
    /\ pc' = [pc EXCEPT ![t] = "locked"]
    /\ UNCHANGED <<max, permits, waiters, now, fut, reported_back_pressure>>
    /\ UNCHANGED inner_vars

\* The loop returning Poll::Pending with the guard kept alive by the future.
PollCritical_KeepsLock(t) ==
    /\ pc[t] = "locked"
    /\ LET r == forget_loop(t, to_forget, permits, waiters, fut)
       IN /\ to_forget' = r.to_forget
          /\ permits' = r.permits
          /\ waiters' = r.waiters
          /\ fut' = r.fut
          /\ pc' = [pc EXCEPT ![t] = IF r.pending THEN "locked" ELSE "unlocked"]
    /\ UNCHANGED <<max, current, past_rtt, next_update, current_rtt,
                   had_back_pressure, now, reported_back_pressure>>

\* The loop under the guard, up to `return Poll::Pending` out of ready!
\* (the guard, a local, is dropped by the return) or up to drop(inner).
PollCritical(t) ==
    /\ pc[t] = "locked"
    /\ LET r == forget_loop(t, to_forget, permits, waiters, fut)
       IN /\ to_forget' = r.to_forget
          /\ permits' = r.permits
          /\ waiters' = r.waiters
          /\ fut' = r.fut
          /\ pc' = [pc EXCEPT ![t] = IF r.pending THEN "waiting" ELSE "unlocked"]
    /\ UNCHANGED <<max, current, past_rtt, next_update, current_rtt,
                   had_back_pressure, now, reported_back_pressure>>

AdjustWithLock == LockHolders = {} /\ Adjust

PollLockStep == \E t \in Tasks : PollLock(t)
PollCriticalStep == \E t \in Tasks : PollCritical(t)

NextLock ==
    \/ AcquireStep
    \/ PollLockStep
    \/ PollCriticalStep
    \/ PollFinalStep
    \/ ReleaseStep
    \/ AdjustWithLock

SpecLock == InitSeeded /\ [][NextLock]_vars

\* A thread that owns the mutex is running poll's synchronous body: it is not
\* suspended and goes on to the end of its critical section.
SpecLockFair == SpecLock /\ \A t \in Tasks : WF_vars(PollCritical(t))

\* C18: the mutex has at most one owner, and the step of a poll that owns it
\* ends with the mutex free, whether the poll returns Pending or goes on to
\* its final poll of the semaphore: no suspended acquire owns the mutex, and
\* a call of adjust_to_response or another poll waiting for it gets it after
\* that one step.
C18_LockNotHeldWhileSuspended ==
    /\ [](Cardinality(LockHolders) <= 1)
    /\ [][\A t \in Tasks : PollCritical(t) => LockHolders' = {}]_vars
    /\ \A t \in Tasks : (pc[t] = "locked") ~> (LockHolders = {})

\* C18 witness: one acquire is suspended in the semaphore's queue with debt
\* still owed, and another caller's poll owns the mutex.
C18_Witness_LockTakenBesideSuspended ==
    \E t \in Tasks, u \in Tasks :
        /\ pc[t] = "waiting" /\ fut[t] = "queued"
        /\ to_forget > 0
        /\ pc[u] = "locked"

\* -------------------------------------------------------- cancellation
RECURSIVE remove_waiter(_, _)
remove_waiter(w, t) ==
    IF w = <<>> THEN <<>>
    ELSE IF Head(w) = t THEN Tail(w)
    ELSE <<Head(w)>> \o remove_waiter(Tail(w), t)

\* A drop that gives nothing back: a permit already assigned to the dropped
\* future is lost.
Cancel_Leaks(t) ==
    /\ pc[t] = "waiting"
    /\ pc' = [pc EXCEPT ![t] = "idle"]
    /\ fut' = [fut EXCEPT ![t] = "none"]
    /\ waiters' = remove_waiter(waiters, t)
    /\ UNCHANGED <<max, permits, now, reported_back_pressure>>
    /\ UNCHANGED inner_vars

\* The caller drops its MaybeForgetFuture between two polls, and with it the
\* boxed acquire_owned future: a queued future leaves the wait queue, and a
\* permit already assigned to it goes back to the semaphore.
Cancel(t) ==
    /\ pc[t] = "waiting"
    /\ pc' = [pc EXCEPT ![t] = "idle"]
    /\ IF fut[t] = "assigned"
       THEN LET r == add_permits(permits, waiters,
                                 [fut EXCEPT ![t] = "none"])
            IN /\ permits' = r.permits
               /\ waiters' = r.waiters
               /\ fut' = r.fut
       ELSE /\ fut' = [fut EXCEPT ![t] = "none"]
            /\ waiters' = remove_waiter(waiters, t)
            /\ permits' = permits
    /\ UNCHANGED <<max, now, reported_back_pressure>>
    /\ UNCHANGED inner_vars

CancelStep == \E t \in Tasks : Cancel(t)

NextCancel ==
    \/ Next
    \/ CancelStep

SpecCancel == InitSeeded /\ [][NextCancel]_vars

\* C19: dropping a pending acquire, whatever it has done so far, leaves
\* to_forget and current as they are and loses no permit: the permits in
\* existence are as many as before, a permit assigned to the dropped acquire
\* is in the semaphore again or with the next acquire in the queue, the
\* dropped acquire is in no queue, and (available + held) - debt = current
\* holds afterwards if it held before.
C19_CancelLeaksNothing ==
    [][\A t \in Tasks :
          (pc[t] = "waiting" /\ pc'[t] = "idle") =>
             /\ to_forget' = to_forget
             /\ current' = current
             /\ HeldCount' = HeldCount
             /\ AvailableCount' = AvailableCount
             /\ fut[t] = "assigned" =>
                   \/ permits' = permits + 1
                   \/ \E u \in Tasks : fut[u] = "queued" /\ fut'[u] = "assigned"
             /\ fut'[t] = "none"
             /\ \A i \in 1..Len(waiters') : waiters'[i] # t
             /\ C3_PermitAccounting => C3_PermitAccounting']_vars

\* C19 witness: the state a cancellation leaves when the dropped acquire had
\* been assigned the only permit of a controller shrunk from 2 to 1 with
\* another acquire queued behind it: nothing is held, nothing is owed, and
\* the permit is with that other acquire.
C19_Witness_PermitPassedOn ==
    /\ max = 2
    /\ current = 1
    /\ to_forget = 0
    /\ permits = 0
    /\ HeldCount = 0
    /\ waiters = <<>>
    /\ pc[1] = "idle" /\ fut[1] = "none"
    /\ pc[2] = "waiting" /\ fut[2] = "assigned"
    /\ pc[3] = "idle"
    /\ now = Horizon

\* ------------------------------------------------------------ fairness
\* The executor polls a pending acquire again and again, and every holder
\* drops its permit in the end; nothing is assumed about adjust_to_response
\* or about new acquires.
SpecFair ==
    /\ SpecSeeded
    /\ \A t \in Tasks :
          /\ WF_vars(PollLocked(t))
          /\ WF_vars(PollFinal(t))
          /\ WF_vars(Release(t))

\* C20: in every reachable state the permits in existence exceed to_forget
\* by at least 1, and a pending acquire is granted a permit in the end.
C20_AcquireNotStarvedByDebt ==
    /\ [](AvailableCount + HeldCount - to_forget >= 1)
    /\ \A t \in Tasks :
          (pc[t] \in {"waiting", "unlocked"}) ~> (pc[t] = "holding")

\* C20 witness: after a halving from 3 to 1 with every permit out, an
\* acquire has paid one of the two permits owed and waits in the queue; two
\* permits exist, one is still owed.
C20_Witness_PendingBehindDebt ==
    /\ max = 3
    /\ current = 1
    /\ to_forget = 1
    /\ AvailableCount = 0
    /\ HeldCount = 2
    /\ \E t \in Tasks : pc[t] = "waiting" /\ fut[t] = "queued"

====
